---------------------------- MODULE Spec2Model ----------------------------
(***************************************************************************)
(* A model of marketmapper.py: the Streamlit handler main, the company     *)
(* lookup get_crunchbase_data with its retry loop, and the parsing of the  *)
(* completion text into startup names.                                     *)
(*                                                                         *)
(* Python strings are sequences of one-character strings, so that split,   *)
(* strip, lower and the substring test are computed character by           *)
(* character.  JSON values are records [kind, val]; the Python operations  *)
(* on them (subscript, in, .get, truth value) yield the exception that     *)
(* Python raises when the value has the wrong type.                        *)
(***************************************************************************)
EXTENDS Integers, Sequences, FiniteSets, TLC

VARIABLES
    mpc,                 \* position of main
    api_key,             \* main: the OpenAI key (None, "" or a key)
    crunchbase_api_key,  \* main: the Crunchbase key
    result,              \* main: the decoded vision response
    csv_content,         \* main: result['choices'][0]['message']['content']
    startups,            \* main: the parsed candidate names
    reparsed,            \* the parsing policy applied to its own joined output
    enriched_data,       \* main: the rows appended so far
    shown,               \* main: what the page shows (errors, json, download)
    exc,                 \* the exception that left main uncaught ("" if none)
    events,              \* every HTTP request, the status of its response,
                         \* and every sleep, in order
    lpc,                 \* position of get_crunchbase_data
    startup_name,        \* get_crunchbase_data: its argument
    attempt,             \* get_crunchbase_data: the loop variable
    delay,               \* get_crunchbase_data: the next backoff delay
    search_response,     \* get_crunchbase_data: the last search response
    details_response,    \* get_crunchbase_data: the details response
    permalink,           \* get_crunchbase_data: the permalink looked up
    ret,                 \* get_crunchbase_data: the returned mapping
    lexc                 \* get_crunchbase_data: the exception it raised ("" if none)

vars == <<mpc, api_key, crunchbase_api_key, result, csv_content, startups,
          reparsed, enriched_data, shown, exc, events, lpc, startup_name,
          attempt, delay, search_response, details_response, permalink,
          ret, lexc>>

mainVars == <<mpc, api_key, crunchbase_api_key, result, csv_content, startups,
              reparsed, enriched_data, shown, exc>>

lookupVars == <<lpc, startup_name, attempt, delay, search_response,
                details_response, permalink, ret, lexc>>

---------------------------------------------------------------------------
(* Bounds of the model.                                                    *)

\* the completion texts checked are made of at most MaxFrags fragments
MaxFrags == 4
\* the entity lists checked hold at most MaxEntities entities
MaxEntities == 2

---------------------------------------------------------------------------
(* Python strings.                                                         *)

UpperAlpha == <<"A","B","C","D","E","F","G","H","I","J","K","L","M",
                "N","O","P","Q","R","S","T","U","V","W","X","Y","Z">>
LowerAlpha == <<"a","b","c","d","e","f","g","h","i","j","k","l","m",
                "n","o","p","q","r","s","t","u","v","w","x","y","z">>

\* the characters str.strip() removes, among the characters used here
\* (Python strips \v, \f and the Unicode spaces as well)
Whitespace == {" ", "\t", "\n", "\r"}

LowerChar(c) ==
    IF \E i \in 1..26 : UpperAlpha[i] = c
    THEN LowerAlpha[CHOOSE i \in 1..26 : UpperAlpha[i] = c]
    ELSE c

\* str.lower(), for the ASCII letters
Lower(s) == [i \in 1..Len(s) |-> LowerChar(s[i])]

\* sub in s, for strings
Contains(s, sub) ==
    \E i \in 0..(Len(s) - Len(sub)) :
        \A j \in 1..Len(sub) : s[i + j] = sub[j]

RECURSIVE LStrip(_)
LStrip(s) ==
    IF s # <<>> /\ Head(s) \in Whitespace THEN LStrip(Tail(s)) ELSE s

RECURSIVE RStrip(_)
RStrip(s) ==
    IF s # <<>> /\ s[Len(s)] \in Whitespace
    THEN RStrip(SubSeq(s, 1, Len(s) - 1))
    ELSE s

\* str.strip()
Strip(s) == RStrip(LStrip(s))

\* str.split(sep) for a one-character sep: never the empty list
RECURSIVE SplitFrom(_, _, _)
SplitFrom(s, sep, cur) ==
    IF s = <<>> THEN <<cur>>
    ELSE IF Head(s) = sep THEN <<cur>> \o SplitFrom(Tail(s), sep, <<>>)
    ELSE SplitFrom(Tail(s), sep, Append(cur, Head(s)))

Split(s, sep) == SplitFrom(s, sep, <<>>)

\* sep.join(parts)
RECURSIVE Join(_, _)
Join(parts, sep) ==
    IF parts = <<>> THEN <<>>
    ELSE IF Len(parts) = 1 THEN parts[1]
    ELSE parts[1] \o <<sep>> \o Join(Tail(parts), sep)

RECURSIVE Concat(_)
Concat(parts) ==
    IF parts = <<>> THEN <<>> ELSE Head(parts) \o Concat(Tail(parts))

---------------------------------------------------------------------------
(* The parsing policy of main.                                             *)

FilterWords == << <<"h","e","r","e"," ","i","s">>,
                  <<"s","t","a","r","t","u","p">>,
                  <<"c","a","t","e","g","o","r","i","z","e","d">> >>

\* a condition that asks for a comma, not for exactly one
KeepLineWithAnyCommas(line) ==
    /\ Contains(line, <<",">>)
    /\ Len(Split(line, ",")) >= 2
    /\ ~ \E w \in 1..Len(FilterWords) : Contains(Lower(line), FilterWords[w])

\* the condition of the list comprehension
KeepLine(line) ==
    /\ Contains(line, <<",">>)
    /\ Len(Split(line, ",")) = 2
    /\ ~ \E w \in 1..Len(FilterWords) : Contains(Lower(line), FilterWords[w])

\* the whole line taken as the candidate
CandidateWholeLine(line) == Strip(line)

\* the element expression of the list comprehension
CandidateOf(line) == Strip(Split(line, ",")[2])

RECURSIVE SelectCandidates(_)
SelectCandidates(lines) ==
    IF lines = <<>> THEN <<>>
    ELSE IF KeepLine(Head(lines))
         THEN <<CandidateOf(Head(lines))>> \o SelectCandidates(Tail(lines))
         ELSE SelectCandidates(Tail(lines))

StartupLines(text) == Split(Strip(text), "\n")

ParseCompletion(text) == SelectCandidates(StartupLines(text))

---------------------------------------------------------------------------
(* JSON values and the Python operations the program applies to them.      *)

Null == [kind |-> "null", val |-> 0]
Bool(b) == [kind |-> "bool", val |-> b]
Num(n) == [kind |-> "num", val |-> n]
Str(s) == [kind |-> "str", val |-> s]
List(l) == [kind |-> "list", val |-> l]
Dict(f) == [kind |-> "dict", val |-> f]
\* a body response.json() cannot decode
Undecodable == [kind |-> "undecodable", val |-> 0]
\* a variable not assigned yet
NoValue == [kind |-> "unset", val |-> 0]

\* the outcome of a Python expression: a value, or the exception raised
Ok(v) == [exc |-> "", val |-> v]
Raise(e) == [exc |-> e, val |-> Null]

\* v[key] for a string key
GetKey(v, key) ==
    IF v.kind = "dict"
    THEN IF key \in DOMAIN v.val THEN Ok(v.val[key]) ELSE Raise("KeyError")
    ELSE Raise("TypeError")

\* v[0]; the keys of a decoded JSON object are strings, so 0 is never one
GetFirst(v) ==
    CASE v.kind = "list" ->
            IF v.val # <<>> THEN Ok(v.val[1]) ELSE Raise("IndexError")
      [] v.kind = "str" ->
            IF v.val # <<>> THEN Ok(Str(<<v.val[1]>>)) ELSE Raise("IndexError")
      [] v.kind = "dict" -> Raise("KeyError")
      [] OTHER -> Raise("TypeError")

\* key in v, for a string key (given as a Python string)
IsIn(key, v) ==
    CASE v.kind = "dict" -> Ok(Bool(\E k \in DOMAIN v.val : k = key.name))
      [] v.kind = "list" ->
            Ok(Bool(\E i \in 1..Len(v.val) :
                        v.val[i].kind = "str" /\ v.val[i].val = key.chars))
      [] v.kind = "str" -> Ok(Bool(Contains(v.val, key.chars)))
      [] OTHER -> Raise("TypeError")

\* bool(v)
Truthy(v) ==
    CASE v.kind = "null" -> FALSE
      [] v.kind = "bool" -> v.val
      [] v.kind = "num" -> v.val # 0
      [] v.kind = "dict" -> DOMAIN v.val # {}
      [] OTHER -> v.val # <<>>

\* v.get(key, default)
GetOr(v, key, default) ==
    IF v.kind = "dict"
    THEN Ok(IF key \in DOMAIN v.val THEN v.val[key] ELSE default)
    ELSE Raise("AttributeError")

\* str(v), as an f-string formats it (the values a permalink takes here)
Format(v) ==
    CASE v.kind = "str" -> v.val
      [] v.kind = "null" -> <<"N","o","n","e">>
      [] v.kind = "bool" -> IF v.val THEN <<"T","r","u","e">>
                                     ELSE <<"F","a","l","s","e">>
      [] v.kind = "num" -> <<"0","1","2","3","4","5","6","7","8","9">>[v.val + 1]
                           \* one digit: the numbers of the model are 0..9
      [] OTHER -> <<"?">>

EntitiesKey == [name |-> "entities", chars |-> <<"e","n","t","i","t","i","e","s">>]

NA == Str(<<"N","/","A">>)

AllNA == [k \in {"Website URL", "LinkedIn", "Short Description"} |-> NA]

---------------------------------------------------------------------------
(* get_crunchbase_data.                                                    *)

max_retries == 5
initial_delay == 1

\* Lines 79-81: the permalink of the first entity of a decoded search body.
\* found = FALSE is the else branch "No entities found".
SelectPermalink(search_data) ==
    LET none == [exc |-> "", found |-> FALSE, val |-> Null]
        fail(e) == [exc |-> e, found |-> FALSE, val |-> Null]
        has == IsIn(EntitiesKey, search_data)
    IN  IF has.exc # "" THEN fail(has.exc)
        ELSE IF ~ has.val.val THEN none
        ELSE
          LET entities == GetKey(search_data, "entities")
          IN  IF entities.exc # "" THEN fail(entities.exc)
              ELSE IF ~ Truthy(entities.val) THEN none
              ELSE
                LET entity == GetFirst(entities.val)
                IN  IF entity.exc # "" THEN fail(entity.exc)
                    ELSE
                      LET identifier == GetKey(entity.val, "identifier")
                      IN  IF identifier.exc # "" THEN fail(identifier.exc)
                          ELSE
                            LET p == GetKey(identifier.val, "permalink")
                            IN  IF p.exc # "" THEN fail(p.exc)
                                ELSE [exc |-> "", found |-> TRUE, val |-> p.val]

\* the mapping with 'LinkedIn' read from the website_url property
ExtractFieldsSwapped(details_data) ==
    LET properties == GetOr(details_data, "properties", Dict(<<>>))
    IN  IF properties.exc # "" THEN [exc |-> properties.exc, val |-> AllNA]
        ELSE
          LET website == GetOr(properties.val, "website_url", NA)
              short == GetOr(properties.val, "short_description", NA)
          IN  IF website.exc # "" THEN [exc |-> website.exc, val |-> AllNA]
              ELSE [exc |-> "",
                    val |-> [k \in {"Website URL", "LinkedIn", "Short Description"} |->
                               CASE k = "Website URL" -> website.val
                                 [] k = "LinkedIn" -> website.val
                                 [] OTHER -> short.val]]

\* Lines 90-95: the mapping built from a decoded details body.
ExtractFields(details_data) ==
    LET properties == GetOr(details_data, "properties", Dict(<<>>))
    IN  IF properties.exc # "" THEN [exc |-> properties.exc, val |-> AllNA]
        ELSE
          LET website == GetOr(properties.val, "website_url", NA)
              linkedin == GetOr(properties.val, "linkedin", NA)
              short == GetOr(properties.val, "short_description", NA)
          IN  IF website.exc # "" THEN [exc |-> website.exc, val |-> AllNA]
              ELSE [exc |-> "",
                    val |-> [k \in {"Website URL", "LinkedIn", "Short Description"} |->
                               CASE k = "Website URL" -> website.val
                                 [] k = "LinkedIn" -> linkedin.val
                                 [] OTHER -> short.val]]

\* the responses of the two endpoints that the model draws from
Statuses == {200, 429, 404, 500}

AcmeInc == <<"a","c","m","e","-","i","n","c">>
Globex == <<"g","l","o","b","e","x">>
AcmeIo == <<"h","t","t","p","s",":","/","/","a","c","m","e",".","i","o">>

PermalinkVals == {Str(AcmeInc), Str(Globex), Null}

IdentifierVals ==
    {Dict([permalink |-> p]) : p \in PermalinkVals} \cup {Dict(<<>>), Null}

EntityVals ==
    {Dict([identifier |-> i]) : i \in IdentifierVals}
        \cup {Dict(<<>>), Str(<<"x">>)}

EntityLists == UNION {[1..n -> EntityVals] : n \in 0..MaxEntities}

EntitiesVals ==
    {List(l) : l \in EntityLists}
        \cup {Null, Num(0), Num(1), Str(<<>>), Str(<<"x">>), Bool(TRUE),
              Dict(<<>>), Dict([a |-> Null])}

SearchBodies ==
    {Undecodable}
        \cup {Dict([entities |-> e]) : e \in EntitiesVals}
        \cup {Dict(<<>>), Dict([count |-> Num(0)]), Null, Num(5), Bool(TRUE),
              List(<<>>), List(<<Str(EntitiesKey.chars)>>),
              Str(<<>>), Str(<<"x">>), Str(EntitiesKey.chars)}

PropertyFields == {"website_url", "linkedin", "short_description"}
FieldVals == {Str(AcmeIo), Null}

PropertiesVals ==
    {Dict(f) : f \in UNION {[S -> FieldVals] : S \in SUBSET PropertyFields}}
        \cup {Null, List(<<>>), Str(<<"x">>)}

DetailsBodies ==
    {Undecodable}
        \cup {Dict([properties |-> p]) : p \in PropertiesVals}
        \cup {Dict(<<>>), Null, Num(1), List(<<>>), Str(<<"x">>)}

Response(status, body) == [status_code |-> status, body |-> body]
NoResponse == Response(0, NoValue)

\* the body matters only to the branch that decodes it
BodiesFor(status, bodies) == IF status = 200 THEN bodies ELSE {Undecodable}

HttpGet(kind, arg) == [kind |-> kind, val |-> Str(arg)]
\* the status code of the response to the request logged before it
Status(kind, code) == [kind |-> kind, val |-> Num(code)]
Slept(d) == [kind |-> "sleep", val |-> Num(d)]

\* Lines 62-70: the function is entered.
EnterLookup(name) ==
    /\ lpc' = "for"
    /\ startup_name' = name
    /\ attempt' = 0
    /\ delay' = initial_delay
    /\ search_response' = NoResponse
    /\ details_response' = NoResponse
    /\ permalink' = NoValue
    /\ ret' = <<>>
    /\ lexc' = ""

ReturnNA == lpc' = "returned" /\ ret' = AllNA /\ lexc' = ""

\* a retry of every failed search, not only of a rate-limited one
IsAnyFailure(status) == status # 200

\* Line 108: the status that is retried.
IsRateLimited(status) == status = 429

\* a backoff that grows by one instead of doubling
NextDelayLinear(d) == d + 1

\* Line 111: the exponential backoff.
NextDelay(d) == d * 2

\* Line 72: the for statement takes the next attempt, or the loop ends and
\* line 116 returns.
ForAttempt ==
    /\ lpc = "for"
    /\ IF attempt < max_retries
       THEN /\ lpc' = "search"
            /\ UNCHANGED <<ret, lexc>>
       ELSE ReturnNA
    /\ UNCHANGED <<startup_name, attempt, delay, search_response,
                   details_response, permalink, events>>
    /\ UNCHANGED mainVars

\* Line 73: the search request and its response.
SearchRequest(bodies) ==
    /\ lpc = "search"
    /\ \E status \in Statuses : \E body \in BodiesFor(status, bodies) :
          /\ search_response' = Response(status, body)
          /\ events' = events \o <<HttpGet("search", startup_name),
                                   Status("search_status", status)>>
    /\ lpc' = "searched"
    /\ UNCHANGED <<startup_name, attempt, delay, details_response,
                   permalink, ret, lexc>>
    /\ UNCHANGED mainVars

\* Lines 75-81 and 101-114: the branch on the search response.
HandleSearch ==
    /\ lpc = "searched"
    /\ CASE search_response.status_code = 200 ->
              IF search_response.body = Undecodable
              THEN ReturnNA /\ UNCHANGED permalink
              ELSE LET sel == SelectPermalink(search_response.body)
                   IN  IF sel.exc # ""
                       THEN /\ lpc' = "raised"
                            /\ lexc' = sel.exc
                            /\ UNCHANGED <<ret, permalink>>
                       ELSE IF sel.found
                       THEN /\ lpc' = "details"
                            /\ permalink' = sel.val
                            /\ UNCHANGED <<ret, lexc>>
                       ELSE ReturnNA /\ UNCHANGED permalink
         [] IsRateLimited(search_response.status_code) ->
              /\ lpc' = "sleep"
              /\ UNCHANGED <<ret, lexc, permalink>>
         [] OTHER -> ReturnNA /\ UNCHANGED permalink
    /\ UNCHANGED <<startup_name, attempt, delay, search_response,
                   details_response, events>>
    /\ UNCHANGED mainVars

\* Lines 109-111, and the end of the loop body.
Backoff ==
    /\ lpc = "sleep"
    /\ events' = Append(events, Slept(delay))
    /\ delay' = NextDelay(delay)
    /\ attempt' = attempt + 1
    /\ lpc' = "for"
    /\ UNCHANGED <<startup_name, search_response, details_response,
                   permalink, ret, lexc>>
    /\ UNCHANGED mainVars

\* Lines 82-84: the details request and its response.
DetailsRequest(bodies) ==
    /\ lpc = "details"
    /\ \E status \in Statuses : \E body \in BodiesFor(status, bodies) :
          /\ details_response' = Response(status, body)
          /\ events' = events \o <<HttpGet("details", Format(permalink)),
                                   Status("details_status", status)>>
    /\ lpc' = "detailed"
    /\ UNCHANGED <<startup_name, attempt, delay, search_response,
                   permalink, ret, lexc>>
    /\ UNCHANGED mainVars

\* Lines 86-100 and 103: the branch on the details response.
HandleDetails ==
    /\ lpc = "detailed"
    /\ IF details_response.status_code = 200
          /\ details_response.body # Undecodable
       THEN LET got == ExtractFields(details_response.body)
            IN  IF got.exc # ""
                THEN lpc' = "raised" /\ lexc' = got.exc /\ UNCHANGED ret
                ELSE lpc' = "returned" /\ ret' = got.val /\ lexc' = ""
       ELSE ReturnNA
    /\ UNCHANGED <<startup_name, attempt, delay, search_response,
                   details_response, permalink, events>>
    /\ UNCHANGED mainVars

---------------------------------------------------------------------------
(* main.                                                                   *)

NoKey == Null
OpenAIKey == Str(<<"s","k">>)
CrunchbaseKey == Str(<<"c","b">>)

\* st.secrets[...]: the lookup fails (the key stays None) or yields a value
SecretVals(key) == {NoKey, Str(<<>>), key}
\* st.text_input(...): empty until the user types a key
InputVals(key) == {Str(<<>>), key}

NothingShown == [errors |-> <<>>, json |-> <<>>, download |-> <<>>]

Columns == <<"Startup Name", "Website URL", "LinkedIn", "Short Description">>

\* Lines 188-193: the row of one candidate.
Row(name, crunchbase_data) ==
    [k \in {Columns[i] : i \in 1..4} |->
        IF k = "Startup Name" THEN Str(name) ELSE crunchbase_data[k]]

\* Lines 195-196: the table handed to the download button.  A DataFrame of
\* no rows has no columns.
ToCsv(rows) ==
    [columns |-> IF rows = <<>> THEN <<>> ELSE Columns, rows |-> rows]

\* Lines 177-178: the completion text of the vision response, stripped.
CompletionOf(response) ==
    LET choices == GetKey(response, "choices")
    IN  IF choices.exc # "" THEN Raise(choices.exc)
        ELSE
          LET first == GetFirst(choices.val)
          IN  IF first.exc # "" THEN Raise(first.exc)
              ELSE
                LET message == GetKey(first.val, "message")
                IN  IF message.exc # "" THEN Raise(message.exc)
                    ELSE
                      LET content == GetKey(message.val, "content")
                      IN  IF content.exc # "" THEN Raise(content.exc)
                          ELSE IF content.val.kind # "str"
                          THEN Raise("AttributeError")
                          ELSE Ok(content.val)

\* Lines 204-206: what except KeyError shows.
ShowParsingFailure ==
    shown' = [shown EXCEPT !.errors = Append(@, "Error extracting CSV content"),
                           !.json = Append(@, result)]

\* Lines 129-163: the keys from the secrets and the inputs, the upload and
\* the button.
Render ==
    /\ mpc = "start"
    /\ \E s1 \in SecretVals(OpenAIKey), i1 \in InputVals(OpenAIKey),
          s2 \in SecretVals(CrunchbaseKey), i2 \in InputVals(CrunchbaseKey),
          uploaded \in BOOLEAN, pressed \in BOOLEAN :
          /\ api_key' = IF ~ Truthy(s1) /\ Truthy(i1) THEN i1 ELSE s1
          /\ crunchbase_api_key' = IF ~ Truthy(s2) /\ Truthy(i2) THEN i2 ELSE s2
          /\ mpc' = IF uploaded /\ pressed THEN "pressed" ELSE "done"
    /\ UNCHANGED <<result, csv_content, startups, reparsed, enriched_data,
                   shown, exc, events>>
    /\ UNCHANGED lookupVars

\* a check of the OpenAI key alone
CheckOpenAIKeyOnly ==
    /\ mpc = "pressed"
    /\ IF ~ Truthy(api_key)
       THEN /\ shown' = [shown EXCEPT
                           !.errors = Append(@, "OpenAI API key is required.")]
            /\ mpc' = "returned"
       ELSE /\ mpc' = "vision"
            /\ UNCHANGED shown
    /\ UNCHANGED <<api_key, crunchbase_api_key, result, csv_content, startups,
                   reparsed, enriched_data, exc, events>>
    /\ UNCHANGED lookupVars

\* Lines 165-171: the check of the two keys.
CheckKeys ==
    /\ mpc = "pressed"
    /\ IF ~ Truthy(api_key)
       THEN /\ shown' = [shown EXCEPT
                           !.errors = Append(@, "OpenAI API key is required.")]
            /\ mpc' = "returned"
       ELSE IF ~ Truthy(crunchbase_api_key)
       THEN /\ shown' = [shown EXCEPT
                           !.errors = Append(@, "Crunchbase API key is required.")]
            /\ mpc' = "returned"
       ELSE /\ mpc' = "vision"
            /\ UNCHANGED shown
    /\ UNCHANGED <<api_key, crunchbase_api_key, result, csv_content, startups,
                   reparsed, enriched_data, exc, events>>
    /\ UNCHANGED lookupVars

\* Line 173 (get_csv_from_image, lines 55-57): the vision request; a body
\* that does not decode raises out of main.
VisionRequest(bodies) ==
    /\ mpc = "vision"
    /\ events' = Append(events, HttpGet("vision", <<>>))
    /\ \E body \in bodies :
          IF body = Undecodable
          THEN mpc' = "raised" /\ exc' = "JSONDecodeError" /\ UNCHANGED result
          ELSE mpc' = "extract" /\ result' = body /\ UNCHANGED exc
    /\ UNCHANGED <<api_key, crunchbase_api_key, csv_content, startups,
                   reparsed, enriched_data, shown>>
    /\ UNCHANGED lookupVars

\* Lines 176-185 and 204-206: the completion text and the candidates.
Extract ==
    /\ mpc = "extract"
    /\ LET content == CompletionOf(result)
       IN  CASE content.exc = "" ->
                  /\ csv_content' = content.val.val
                  /\ startups' = ParseCompletion(content.val.val)
                  /\ enriched_data' = <<>>
                  /\ mpc' = "loop"
                  /\ UNCHANGED <<shown, exc>>
             [] content.exc = "KeyError" ->
                  /\ ShowParsingFailure
                  /\ mpc' = "done"
                  /\ UNCHANGED <<csv_content, startups, enriched_data, exc>>
             [] OTHER ->
                  /\ mpc' = "raised"
                  /\ exc' = content.exc
                  /\ UNCHANGED <<csv_content, startups, enriched_data, shown>>
    /\ UNCHANGED <<api_key, crunchbase_api_key, result, reparsed, events>>
    /\ UNCHANGED lookupVars

\* Lines 186-187: the next candidate is looked up.
CallLookup ==
    /\ mpc = "loop"
    /\ Len(enriched_data) < Len(startups)
    /\ EnterLookup(startups[Len(enriched_data) + 1])
    /\ mpc' = "lookup"
    /\ UNCHANGED <<api_key, crunchbase_api_key, result, csv_content, startups,
                   reparsed, enriched_data, shown, exc, events>>

\* the row put in front of the rows instead of behind them
AppendRowInFront ==
    /\ mpc = "lookup"
    /\ lpc = "returned"
    /\ enriched_data' = <<Row(startup_name, ret)>> \o enriched_data
    /\ mpc' = "loop"
    /\ lpc' = "idle"
    /\ UNCHANGED <<api_key, crunchbase_api_key, result, csv_content, startups,
                   reparsed, shown, exc, events>>
    /\ UNCHANGED <<startup_name, attempt, delay, search_response,
                   details_response, permalink, ret, lexc>>

\* Lines 188-193: the lookup returned and its row is appended.
AppendRow ==
    /\ mpc = "lookup"
    /\ lpc = "returned"
    /\ enriched_data' = Append(enriched_data, Row(startup_name, ret))
    /\ mpc' = "loop"
    /\ lpc' = "idle"
    /\ UNCHANGED <<api_key, crunchbase_api_key, result, csv_content, startups,
                   reparsed, shown, exc, events>>
    /\ UNCHANGED <<startup_name, attempt, delay, search_response,
                   details_response, permalink, ret, lexc>>

\* The lookup raised: a KeyError is caught by line 204, any other exception
\* leaves main.
LookupRaised ==
    /\ mpc = "lookup"
    /\ lpc = "raised"
    /\ IF lexc = "KeyError"
       THEN ShowParsingFailure /\ mpc' = "done" /\ UNCHANGED exc
       ELSE mpc' = "raised" /\ exc' = lexc /\ UNCHANGED shown
    /\ lpc' = "idle"
    /\ UNCHANGED <<api_key, crunchbase_api_key, result, csv_content, startups,
                   reparsed, enriched_data, events>>
    /\ UNCHANGED <<startup_name, attempt, delay, search_response,
                   details_response, permalink, ret, lexc>>

\* Lines 195-203: the table and the download button.
OfferDownload ==
    /\ mpc = "loop"
    /\ Len(enriched_data) = Len(startups)
    /\ shown' = [shown EXCEPT !.download = Append(@, ToCsv(enriched_data))]
    /\ mpc' = "done"
    /\ UNCHANGED <<api_key, crunchbase_api_key, result, csv_content, startups,
                   reparsed, enriched_data, exc, events>>
    /\ UNCHANGED lookupVars

---------------------------------------------------------------------------
(* The inputs of the model and its specifications.                         *)

Category == <<"C","a","t","e","g","o","r","y">>
Acme == <<"A","c","m","e">>
HereIsYourList == <<"H","e","r","e"," ","i","s"," ","y","o","u","r"," ",
                    "l","i","s","t">>
Extra == <<"E","x","t","r","a">>

\* "Category,Acme\nHere is your list\nCategory,Globex,Extra"
ExampleText ==
    Category \o <<",">> \o Acme \o <<"\n">> \o HereIsYourList \o <<"\n">>
        \o Category \o <<",">> \o Globex \o <<",">> \o Extra

\* "Category,Acme\nCategory,globex"
TwoRowText == Category \o <<",">> \o Acme \o <<"\n">> \o Category \o <<",">> \o Globex

\* the same candidate twice, with blanks around it
TwiceText == <<"a",","," ">> \o Acme \o <<" ","\n","b",",">> \o Acme \o <<"\n">>

Fragments ==
    { <<"A">>, <<",">>, <<"\n">>, <<" ">>,
      <<"H","e","r","e"," ","i","s">>,
      <<"S","t","a","r","t","U","p">>,
      <<"c","a","t","e","g","o","r","i","z","e","d">> }

Texts ==
    {Concat(fs) : fs \in UNION {[1..n -> Fragments] : n \in 0..MaxFrags}}
        \cup {ExampleText, TwoRowText, TwiceText}

Completion(content) ==
    Dict([choices |-> List(<<Dict([message |-> Dict([content |-> content])])>>)])

MainTexts == {ExampleText, TwoRowText, TwiceText, <<>>, HereIsYourList}

VisionBodies ==
    {Undecodable}
        \cup {Completion(Str(t)) : t \in MainTexts}
        \cup {Completion(Null), Completion(List(<<>>)),
              Dict([error |-> Dict([message |-> Str(<<"x">>)])]),
              Dict([choices |-> List(<<>>)]),
              Dict([choices |-> Null]),
              Dict([choices |-> Dict(<<>>)]),
              Dict([choices |-> List(<<Dict(<<>>)>>)]),
              Dict([choices |-> List(<<Null>>)]),
              Dict([choices |-> List(<<Dict([message |-> Dict(<<>>)])>>)]),
              Dict([choices |-> List(<<Dict([message |-> Null])>>)]),
              Null, List(<<>>)}

FoundAcme ==
    Dict([entities |->
            List(<<Dict([identifier |-> Dict([permalink |-> Str(AcmeInc)])])>>)])

MainSearchBodies ==
    {Undecodable, Dict(<<>>), FoundAcme,
     Dict([entities |-> List(<<Dict(<<>>)>>)]), Null}

MainDetailsBodies ==
    {Undecodable, Dict([properties |-> Dict([website_url |-> Str(AcmeIo)])]),
     Null}

Unset ==
    /\ api_key = NoValue
    /\ crunchbase_api_key = NoValue
    /\ result = NoValue
    /\ csv_content = <<>>
    /\ startups = <<>>
    /\ reparsed = <<>>
    /\ enriched_data = <<>>
    /\ shown = NothingShown
    /\ exc = ""
    /\ events = <<>>

LookupIdle ==
    /\ lpc = "idle"
    /\ startup_name = <<>>
    /\ attempt = 0
    /\ delay = initial_delay
    /\ search_response = NoResponse
    /\ details_response = NoResponse
    /\ permalink = NoValue
    /\ ret = <<>>
    /\ lexc = ""

\* main, from the page being rendered
Init == mpc = "start" /\ Unset /\ LookupIdle

Next ==
    \/ Render
    \/ CheckKeys
    \/ VisionRequest(VisionBodies)
    \/ Extract
    \/ CallLookup
    \/ AppendRow
    \/ LookupRaised
    \/ OfferDownload
    \/ ForAttempt
    \/ SearchRequest(MainSearchBodies)
    \/ HandleSearch
    \/ Backoff
    \/ DetailsRequest(MainDetailsBodies)
    \/ HandleDetails

Spec == Init /\ [][Next]_vars

\* get_crunchbase_data alone, from its entry, over every response
InitLookup ==
    /\ mpc = "lookup"
    /\ Unset
    /\ lpc = "for"
    /\ startup_name \in {Acme, Globex}
    /\ attempt = 0
    /\ delay = initial_delay
    /\ search_response = NoResponse
    /\ details_response = NoResponse
    /\ permalink = NoValue
    /\ ret = <<>>
    /\ lexc = ""

NextLookup ==
    \/ ForAttempt
    \/ SearchRequest(SearchBodies)
    \/ HandleSearch
    \/ Backoff
    \/ DetailsRequest(DetailsBodies)
    \/ HandleDetails

SpecLookup == InitLookup /\ [][NextLookup]_vars

\* the parsing policy alone, over every text, and applied again to the
\* candidates joined with newlines
ParseText ==
    /\ mpc = "parse"
    /\ startups' = ParseCompletion(csv_content)
    /\ mpc' = "parsed"
    /\ UNCHANGED <<api_key, crunchbase_api_key, result, csv_content, reparsed,
                   enriched_data, shown, exc, events>>
    /\ UNCHANGED lookupVars

ParseAgain ==
    /\ mpc = "parsed"
    /\ reparsed' = ParseCompletion(Join(startups, "\n"))
    /\ mpc' = "reparsed"
    /\ UNCHANGED <<api_key, crunchbase_api_key, result, csv_content, startups,
                   enriched_data, shown, exc, events>>
    /\ UNCHANGED lookupVars

InitParse ==
    /\ mpc = "parse"
    /\ api_key = NoValue
    /\ crunchbase_api_key = NoValue
    /\ result = NoValue
    /\ csv_content \in Texts
    /\ startups = <<>>
    /\ reparsed = <<>>
    /\ enriched_data = <<>>
    /\ shown = NothingShown
    /\ exc = ""
    /\ events = <<>>
    /\ LookupIdle

NextParse == ParseText \/ ParseAgain

SpecParse == InitParse /\ [][NextParse]_vars

---------------------------------------------------------------------------
(* What a run did, read off the log of events.                             *)

OfKind(kinds) == SelectSeq(events, LAMBDA e : e.kind \in kinds)

SearchRequests == OfKind({"search"})
DetailsRequests == OfKind({"details"})
LookupRequests == OfKind({"search", "details"})
SearchStatuses ==
    LET st == OfKind({"search_status"}) IN [i \in 1..Len(st) |-> st[i].val.val]
Sleeps ==
    LET sl == OfKind({"sleep"}) IN [i \in 1..Len(sl) |-> sl[i].val.val]

RECURSIVE Sum(_)
Sum(seq) == IF seq = <<>> THEN 0 ELSE Head(seq) + Sum(Tail(seq))

RECURSIVE Pow2(_)
Pow2(k) == IF k = 0 THEN 1 ELSE 2 * Pow2(k - 1)

LookupEnded == lpc \in {"returned", "raised"}

ResultKeys == {"Website URL", "LinkedIn", "Short Description"}

---------------------------------------------------------------------------
(* The claims about get_crunchbase_data, checked under SpecLookup.         *)

\* C1: get_crunchbase_data never fails: whatever the search response and the
\* details response, the call never ends by raising an exception, and when
\* it returns, it returns a mapping with exactly the three keys
\* 'Website URL', 'LinkedIn', 'Short Description'.
C1_LookupNeverRaises ==
    /\ lpc # "raised"
    /\ lpc = "returned" => DOMAIN ret = ResultKeys

\* C2: when the first n search responses are 429 (0 <= n <= 4) and the next
\* one is not, exactly n+1 search requests are made and the waits are
\* 1, 2, 4, ..., 2^(n-1), each one between two search requests; no lookup
\* makes more than 5 search requests; and when all 5 responses are 429 the
\* lookup returns the all-"N/A" record without a details request.
C2_BackoffSchedule ==
    LET st == SearchStatuses
    IN  /\ Len(SearchRequests) <= 5
        /\ \A n \in 0..4 :
              ( /\ Len(st) >= n + 1
                /\ \A i \in 1..n : st[i] = 429
                /\ st[n + 1] # 429 )
              => /\ Len(SearchRequests) = n + 1
                 /\ Sleeps = [i \in 1..n |-> Pow2(i - 1)]
                 /\ OfKind({"search", "sleep"}) =
                      [j \in 1..(2 * n + 1) |->
                          IF j % 2 = 1 THEN HttpGet("search", startup_name)
                                       ELSE Slept(Pow2((j \div 2) - 1))]
        /\ ( /\ LookupEnded
             /\ Len(st) = 5
             /\ \A i \in 1..5 : st[i] = 429 )
           => /\ lpc = "returned"
              /\ ret = AllNA
              /\ DetailsRequests = <<>>

\* C2's case: 429 three times, then 200 with no entities: waits 1, 2, 4,
\* four search requests, no details request, the all-"N/A" record.
C2_Witness ==
    /\ lpc = "returned"
    /\ SearchStatuses = <<429, 429, 429, 200>>
    /\ search_response.body = Dict([entities |-> List(<<>>)])
    /\ Sleeps = <<1, 2, 4>>
    /\ Len(SearchRequests) = 4
    /\ DetailsRequests = <<>>
    /\ ret = AllNA

\* C10: every backoff sleep is followed by another search request: a lookup
\* that made k search requests slept at most k-1 times, its last sleep comes
\* before its last search request, and it slept at most 1+2+4+8 = 15 units.
C10_EverySleepIsFollowedByARetry ==
    LookupEnded =>
        LET steps == OfKind({"search", "sleep"})
        IN  /\ Len(Sleeps) <= Len(SearchRequests) - 1
            /\ steps[Len(steps)].kind = "search"
            /\ Sum(Sleeps) <= 15

\* a search body with no entity list, or an empty one
NoEntityList(body) ==
    /\ body.kind = "dict"
    /\ \/ "entities" \notin DOMAIN body.val
       \/ ~ Truthy(body.val["entities"])

\* a search body whose entity list is a list with a first entity
HasEntities(body) ==
    /\ body.kind = "dict"
    /\ "entities" \in DOMAIN body.val
    /\ body.val["entities"].kind = "list"
    /\ body.val["entities"].val # <<>>

\* C7: only a 429 search response is followed by another search request.
\* After a search response with another non-200 status, after a 200 search
\* response that does not decode or has no (or an empty) entity list, and
\* after a details response that is not 200 (429 too) or does not decode,
\* nothing more is requested and the all-"N/A" record is returned; a details
\* request is made at most once, and only after a 200 search response with a
\* non-empty entity list.
C7_OnlyRateLimitIsRetried ==
    LET last == Len(events)
        endsWithNA == /\ lpc \in {"searched", "detailed", "returned"}
                      /\ lpc = "returned" => ret = AllNA
    IN  /\ \A i \in 1..last :
              events[i].kind = "search" /\ i > 1
              => /\ i > 2
                 /\ events[i - 1].kind = "sleep"
                 /\ events[i - 2] = Status("search_status", 429)
        /\ \A i \in 1..last :
              events[i].kind = "search_status" /\ events[i].val.val \notin {200, 429}
              => i = last /\ endsWithNA
        /\ \A i \in 1..last :
              ( /\ events[i] = Status("search_status", 200)
                /\ \/ search_response.body = Undecodable
                   \/ NoEntityList(search_response.body) )
              => i = last /\ endsWithNA
        /\ \A i \in 1..last :
              events[i].kind = "details_status"
              => /\ i = last
                 /\ ( \/ events[i].val.val # 200
                      \/ details_response.body = Undecodable )
                    => endsWithNA
        /\ Len(DetailsRequests) <= 1
        /\ \A i \in 1..last :
              events[i].kind = "details"
              => /\ i > 1
                 /\ events[i - 1] = Status("search_status", 200)
                 /\ HasEntities(search_response.body)

\* C7's case: a details response with status 429 is not retried.
C7_Witness ==
    /\ lpc = "returned"
    /\ events = <<HttpGet("search", Acme), Status("search_status", 200),
                  HttpGet("details", AcmeInc), Status("details_status", 429)>>
    /\ ret = AllNA

\* the permalink of the first entity, read straight off a search body
FirstPermalink(body) ==
    body.val["entities"].val[1].val["identifier"].val["permalink"]

\* a field of the details body's 'properties', "N/A" when it is absent
PropertyOrNA(body, field) ==
    IF "properties" \in DOMAIN body.val
    THEN IF field \in DOMAIN body.val["properties"].val
         THEN body.val["properties"].val[field]
         ELSE NA
    ELSE NA

\* C8: the details request is made for the permalink of the first entity of
\* the search response, and after a 200, decodable details response each of
\* the three returned fields is the value of website_url, linkedin,
\* short_description under 'properties', or "N/A" when the field or
\* 'properties' is absent.
C8_FirstEntityAndItsFields ==
    /\ \A i \in 1..Len(events) :
          events[i].kind = "details"
          => events[i].val = Str(Format(FirstPermalink(search_response.body)))
    /\ ( /\ lpc = "returned"
         /\ details_response.status_code = 200
         /\ details_response.body # Undecodable )
       => /\ DOMAIN ret = ResultKeys
          /\ ret["Website URL"] = PropertyOrNA(details_response.body, "website_url")
          /\ ret["LinkedIn"] = PropertyOrNA(details_response.body, "linkedin")
          /\ ret["Short Description"] =
                PropertyOrNA(details_response.body, "short_description")

\* C8's case: the first of two entities is "acme-inc", and its properties
\* hold only website_url.
C8_Witness ==
    /\ lpc = "returned"
    /\ DetailsRequests = <<HttpGet("details", AcmeInc)>>
    /\ HasEntities(search_response.body)
    /\ Len(search_response.body.val["entities"].val) = 2
    /\ FirstPermalink(search_response.body) = Str(AcmeInc)
    /\ search_response.body.val["entities"].val[2] =
          Dict([identifier |-> Dict([permalink |-> Str(Globex)])])
    /\ details_response =
          Response(200, Dict([properties |-> Dict([website_url |-> Str(AcmeIo)])]))
    /\ ret["Website URL"] = Str(AcmeIo)
    /\ ret["LinkedIn"] = NA
    /\ ret["Short Description"] = NA

---------------------------------------------------------------------------
(* The claims about the parsing policy, checked under SpecParse.           *)

CommaCount(line) == Cardinality({i \in 1..Len(line) : line[i] = ","})

\* a line the policy is said to select
IsSelected(line) ==
    /\ CommaCount(line) = 1
    /\ ~ Contains(Lower(line), <<"h","e","r","e"," ","i","s">>)
    /\ ~ Contains(Lower(line), <<"s","t","a","r","t","u","p">>)
    /\ ~ Contains(Lower(line), <<"c","a","t","e","g","o","r","i","z","e","d">>)

\* the trimmed text after the comma of a line with one comma
AfterComma(line) ==
    LET c == CHOOSE i \in 1..Len(line) : line[i] = ","
    IN  Strip(SubSeq(line, c + 1, Len(line)))

\* the end of the line of text that starts at position s
LineEnd(text, s) ==
    IF \E i \in s..Len(text) : text[i] = "\n"
    THEN (CHOOSE i \in s..Len(text) :
              text[i] = "\n" /\ \A j \in s..(i - 1) : text[j] # "\n") - 1
    ELSE Len(text)

\* the candidates of the lines of text from position s on, line by line
RECURSIVE ExpectedFrom(_, _)
ExpectedFrom(text, s) ==
    IF s > Len(text) + 1 THEN <<>>
    ELSE LET e == LineEnd(text, s)
             line == SubSeq(text, s, e)
         IN  (IF IsSelected(line) THEN <<AfterComma(line)>> ELSE <<>>)
                 \o ExpectedFrom(text, e + 2)

\* C4: a line of the completion text yields a candidate if and only if it
\* holds exactly one comma and its lowercased form holds none of "here is",
\* "startup", "categorized"; the candidate is the trimmed text after the
\* comma; the example text yields exactly the candidate "Acme".
C4_ParsingPolicy ==
    mpc \in {"parsed", "reparsed"} =>
        /\ startups = ExpectedFrom(csv_content, 1)
        /\ csv_content = ExampleText => startups = <<Acme>>

\* C4's case: the example text has been parsed.
C4_Witness ==
    /\ mpc = "parsed"
    /\ csv_content = ExampleText
    /\ startups = <<Acme>>

ToSet(seq) == {seq[i] : i \in 1..Len(seq)}

\* C9: the parsing policy is idempotent: run on the candidates of a first
\* run joined with newlines, it yields the same set of candidates.
C9_Idempotent ==
    mpc = "reparsed" => ToSet(reparsed) = ToSet(startups)

\* C9, amended: run on the candidates of a first run joined with newlines,
\* the policy yields no candidate at all (a candidate holds no comma), so
\* the two sets are equal only when the first run yielded none.
C9_SecondRunYieldsNothing ==
    mpc = "reparsed" =>
        /\ reparsed = <<>>
        /\ ToSet(reparsed) = ToSet(startups) <=> startups = <<>>

\* C9's case: a first run that yields a candidate, and the second run on it.
C9_Witness ==
    /\ mpc = "reparsed"
    /\ csv_content = TwoRowText
    /\ startups = <<Acme, Globex>>
    /\ reparsed = <<>>

---------------------------------------------------------------------------
(* The claims about main, checked under Spec.                              *)

KeyMissing == ~ Truthy(api_key) \/ ~ Truthy(crunchbase_api_key)

KeyErrors == {"OpenAI API key is required.", "Crunchbase API key is required."}

\* C3: when the OpenAI key or the Crunchbase key is missing as 'Extract
\* Startups' is pressed, the run makes no HTTP request, shows an error
\* message and offers no download.
C3_NoRequestWithoutKeys ==
    /\ [](mpc # "start" /\ KeyMissing =>
            /\ events = <<>>
            /\ shown.download = <<>>
            /\ mpc \in {"pressed", "returned", "done"}
            /\ mpc = "returned" =>
                  Len(shown.errors) = 1 /\ shown.errors[1] \in KeyErrors)
    /\ [][mpc = "pressed" /\ KeyMissing =>
            mpc' = "returned" /\ shown'.errors # <<>>]_vars

\* C3's case: the button was pressed with the Crunchbase key missing.
C3_Witness ==
    /\ mpc = "returned"
    /\ Truthy(api_key)
    /\ ~ Truthy(crunchbase_api_key)
    /\ shown.errors = <<"Crunchbase API key is required.">>
    /\ events = <<>>

RowNames(rows) == [i \in 1..Len(rows) |-> rows[i]["Startup Name"]]
NamesOf(names) == [i \in 1..Len(names) |-> Str(names[i])]

\* C5: the lookups are made one at a time in the order of the candidates (a
\* request for a candidate is made only once the rows of all candidates
\* before it are appended), and the table has one row per candidate, in
\* that order, each named after its candidate.
C5_OneRowPerCandidateInOrder ==
    /\ [](/\ Len(enriched_data) <= Len(startups)
          /\ RowNames(enriched_data) =
                SubSeq(NamesOf(startups), 1, Len(enriched_data))
          /\ lpc # "idle" =>
                /\ mpc = "lookup"
                /\ Len(enriched_data) < Len(startups)
                /\ startup_name = startups[Len(enriched_data) + 1]
          /\ \A i \in 1..Len(shown.download) :
                /\ Len(shown.download[i].rows) = Len(startups)
                /\ RowNames(shown.download[i].rows) = NamesOf(startups))
    /\ [][\A i \in (Len(events) + 1)..Len(events') :
              events'[i].kind = "search" =>
                  /\ mpc = "lookup"
                  /\ Len(enriched_data) < Len(startups)
                  /\ events'[i].val = Str(startups[Len(enriched_data) + 1])]_vars

\* C5's case: two candidates, the first found and the second not; both rows
\* are in the table, in the order of the candidates.
C5_Witness ==
    /\ mpc = "done"
    /\ startups = <<Acme, Globex>>
    /\ Len(shown.download) = 1
    /\ RowNames(shown.download[1].rows) = <<Str(Acme), Str(Globex)>>
    /\ shown.download[1].rows[1]["Website URL"] = Str(AcmeIo)
    /\ shown.download[1].rows[2] = Row(Globex, AllNA)
    /\ SearchRequests = <<HttpGet("search", Acme), HttpGet("search", Globex)>>

\* a vision response with a value at choices[0].message.content
HasCompletionField(r) ==
    /\ r.kind = "dict"
    /\ "choices" \in DOMAIN r.val
    /\ r.val["choices"].kind = "list"
    /\ r.val["choices"].val # <<>>
    /\ r.val["choices"].val[1].kind = "dict"
    /\ "message" \in DOMAIN r.val["choices"].val[1].val
    /\ r.val["choices"].val[1].val["message"].kind = "dict"
    /\ "content" \in DOMAIN r.val["choices"].val[1].val["message"].val

\* C6: for every vision response without the completion field at
\* choices[0].message.content, the run shows the parsing failure and the
\* raw response, makes no lookup request, offers no download, and does not
\* end in an uncaught exception.
C6_MalformedResponseIsReported ==
    ( /\ result.kind # "unset"
      /\ ~ HasCompletionField(result)
      /\ mpc # "extract" )
    => /\ mpc = "done"
       /\ exc = ""
       /\ shown.errors = <<"Error extracting CSV content">>
       /\ shown.json = <<result>>
       /\ shown.download = <<>>
       /\ LookupRequests = <<>>

=============================================================================
